---- MODULE Spec2Model ----
(***************************************************************************)
(* A model of react-redux-connector (src/src/index.js): namespaced         *)
(* reducers and their combination, the namespace connector's state and     *)
(* dispatch mappers, the config prerequisite check, and the chainable      *)
(* combined connector built by combineConnectors.                          *)
(*                                                                         *)
(* JavaScript objects and Immutable Maps are functions from a finite set   *)
(* of string keys.  `undefined` arguments are the empty sequence, a        *)
(* defined argument v is <<v>>.  A thrown Error is a record naming its     *)
(* kind.  console.warn lines are records appended to a sequence.           *)
(***************************************************************************)
EXTENDS Integers, Sequences, FiniteSets, TLC

VARIABLES
    store,      \* the Redux store: its combined reducers, its root state, and the
                \* action last dispatched with the root state before it
    reduced,    \* the most recent direct call of a namespaced reducer
    checked,    \* the call of checkConfigPrerequisiteSatisfied under test
    mapped,     \* the call of a connector's state/dispatch mapper under test
    combined,   \* the combined connector: the accumulators of one combineConnectors call
    bound,      \* what the most recent application handed to react-redux's connect
    returned,   \* what the most recent push/connect call returned
    console     \* the console.warn lines of the most recent operation

vars == <<store, reduced, checked, mapped, combined, bound, returned, console>>

(***************************************************************************)
(* Bounds of the model.                                                    *)
(***************************************************************************)
MaxCount == 2       \* counters kept in the store wrap below this value + 1
MaxReducers == 2    \* reducers passed to one combineNamespacedReducers call
MaxProps == 2       \* entries of a propsToConnect / actionsToConnect array
MaxCalls == 2       \* constructor entries + push/connect calls per builder

(***************************************************************************)
(* JavaScript values.                                                      *)
(***************************************************************************)
Undefined == <<>>
Some(v) == <<v>>
IsUndefined(o) == o = <<>>

EmptyObj == [k \in {} |-> 0]

\* obj[k] = v on a plain object / Map.set
Put(obj, k, v) == [x \in (DOMAIN obj) \cup {k} |-> IF x = k THEN v ELSE obj[x]]

\* A merge in which the target's keys survive a collision.
AssignKeepsTarget(target, source) ==
    [x \in (DOMAIN target) \cup (DOMAIN source) |->
        IF x \in DOMAIN target THEN target[x] ELSE source[x]]

\* Object.assign(target, source): source's own keys overwrite target's
Assign(target, source) ==
    [x \in (DOMAIN target) \cup (DOMAIN source) |->
        IF x \in DOMAIN source THEN source[x] ELSE target[x]]

\* Object.assign(...objs): objs[1] is the target, the others are merged in order
RECURSIVE AssignAll(_)
AssignAll(objs) ==
    IF Len(objs) = 1 THEN objs[1]
    ELSE Assign(AssignAll(SubSeq(objs, 1, Len(objs) - 1)), objs[Len(objs)])

(***************************************************************************)
(* The host application's reducers: namespaces, initial states, and tables *)
(* of handlers indexed by action type.                                     *)
(***************************************************************************)
ActionTypes == {"a/INC", "b/SET", "RESET", "@@redux/INIT"}
Actions == [type : ActionTypes, value : 0..1]
InitAction == [type |-> "@@redux/INIT", value |-> 0]

\* The handlers the application registers; each is (state, action) -> state.
Handler(name, state, action) ==
    CASE name = "increment" ->
            Put(state, "count",
                IF "count" \in DOMAIN state THEN (state["count"] + 1) % (MaxCount + 1) ELSE 1)
      [] name = "setTotal" -> Put(state, "total", action.value)
      [] name = "clear" -> [count |-> 0]

ReducerIds == {"R1", "R2", "R3"}

\* The arguments of the createNamespacedReducer calls of the application.
ReducerDef(r) ==
    CASE r = "R1" -> [namespace |-> "a", initialState |-> [count |-> 0],
                      reducerFunctions |-> [t \in {"a/INC", "RESET"} |->
                          IF t = "a/INC" THEN "increment" ELSE "clear"]]
      [] r = "R2" -> [namespace |-> "b", initialState |-> [count |-> 1, total |-> 0],
                      reducerFunctions |-> [t \in {"b/SET", "RESET"} |->
                          IF t = "b/SET" THEN "setTotal" ELSE "clear"]]
      [] r = "R3" -> [namespace |-> "a", initialState |-> [count |-> 2],
                      reducerFunctions |-> [t \in {"a/INC"} |-> "increment"]]

\* The reducer with the default case returning initialState instead of state.
ReducerResetsOnUnmatched(r, stateArg, action) ==
    LET def == ReducerDef(r)
        state == IF IsUndefined(stateArg) THEN def.initialState ELSE stateArg[1]
    IN  IF action.type \in DOMAIN def.reducerFunctions
        THEN Handler(def.reducerFunctions[action.type], state, action)
        ELSE def.initialState

\* createNamespacedReducer's returned reducer: (state = initialState, action) =>
\* reducerFunctions[action.type] ? reducerFunctions[action.type](state, action) : state
Reducer(r, stateArg, action) ==
    LET def == ReducerDef(r)
        state == IF IsUndefined(stateArg) THEN def.initialState ELSE stateArg[1]
    IN  IF action.type \in DOMAIN def.reducerFunctions
        THEN Handler(def.reducerFunctions[action.type], state, action)
        ELSE state

\* reducer.reduxNamespace
ReduxNamespace(r) == ReducerDef(r).namespace

\* combineNamespacedReducers' reduce: index each reducer by its namespace, a
\* later reducer replacing an earlier one of the same namespace.
RECURSIVE IndexReducers(_)
IndexReducers(reduxReducers) ==
    IF reduxReducers = <<>> THEN EmptyObj
    ELSE LET n == Len(reduxReducers)
         IN  Put(IndexReducers(SubSeq(reduxReducers, 1, n - 1)),
                 ReduxNamespace(reduxReducers[n]), reduxReducers[n])

\* The combined reducer handing every reducer the whole root's first slice.
CombinedReducerOneSlice(indexed, rootArg, action) ==
    LET root == IF IsUndefined(rootArg) THEN EmptyObj ELSE rootArg[1]
    IN  [ns \in DOMAIN indexed |->
            Reducer(indexed[ns],
                    IF "a" \in DOMAIN root THEN Some(root["a"]) ELSE Undefined,
                    action)]

\* The reducer combineReducers (redux) makes of the indexed reducers: every
\* indexed reducer gets its own slice (undefined when the slice is missing).
CombinedReducer(indexed, rootArg, action) ==
    LET root == IF IsUndefined(rootArg) THEN EmptyObj ELSE rootArg[1]
    IN  [ns \in DOMAIN indexed |->
            Reducer(indexed[ns],
                    IF ns \in DOMAIN root THEN Some(root[ns]) ELSE Undefined,
                    action)]

\* combineNamespacedReducers(...reduxReducers)
CombineNamespacedReducers(reduxReducers) == IndexReducers(reduxReducers)

RECURSIVE SeqsUpTo(_, _)
SeqsUpTo(S, n) ==
    IF n = 0 THEN {<<>>}
    ELSE LET shorter == SeqsUpTo(S, n - 1)
         IN  shorter \cup {Append(s, x) : s \in shorter, x \in S}

Range(s) == {s[i] : i \in 1..Len(s)}

NoStore == [created |-> FALSE, reducers |-> <<>>, indexed |-> EmptyObj,
            state |-> EmptyObj, action |-> InitAction, prev |-> Undefined]

\* createStore(combineNamespacedReducers(...reduxReducers)): redux dispatches its
\* INIT action, which every reducer answers with its initial state.
CreateStore(reduxReducers) ==
    /\ ~store.created
    /\ LET indexed == CombineNamespacedReducers(reduxReducers)
       IN  store' = [created |-> TRUE, reducers |-> reduxReducers, indexed |-> indexed,
                     state |-> CombinedReducer(indexed, Undefined, InitAction),
                     action |-> InitAction, prev |-> Undefined]
    /\ UNCHANGED <<reduced, checked, mapped, combined, bound, returned, console>>

\* store.dispatch(action): the root state is replaced by the combined reducer's.
Dispatch(action) ==
    /\ store.created
    /\ store' = [store EXCEPT !.state = CombinedReducer(store.indexed, Some(store.state), action),
                              !.action = action,
                              !.prev = Some(store.state)]
    /\ UNCHANGED <<reduced, checked, mapped, combined, bound, returned, console>>

NamespaceStates == {[count |-> 0], [count |-> 1], [count |-> 2, total |-> 1]}

NoReduced == [called |-> FALSE, reducer |-> "R1", state |-> Undefined,
              action |-> InitAction, result |-> EmptyObj]

\* The direct call reducer(state, action) of one namespaced reducer.
CallReducer ==
    /\ ~reduced.called
    /\ reduced' = [reduced EXCEPT
                     !.called = TRUE,
                     !.result = Reducer(reduced.reducer, reduced.state, reduced.action)]
    /\ UNCHANGED <<store, checked, mapped, combined, bound, returned, console>>

(***************************************************************************)
(* checkConfigPrerequisiteSatisfied.                                       *)
(***************************************************************************)
\* A name argument is a string; the empty string is the falsy one.
Names == {"", "name"}
ConfigNames == {"", "max", "sort"}

\* A config argument: its typeof, and for an object its fields with the typeof
\* of each field's value.  typeof null is 'object'.
Configs ==
    { [type |-> "undefined", isNull |-> FALSE, fields |-> EmptyObj],
      [type |-> "object", isNull |-> TRUE, fields |-> EmptyObj],
      [type |-> "string", isNull |-> FALSE, fields |-> EmptyObj],
      [type |-> "object", isNull |-> FALSE, fields |-> EmptyObj],
      [type |-> "object", isNull |-> FALSE, fields |-> [max |-> "string"]],
      [type |-> "object", isNull |-> FALSE, fields |-> [max |-> "number"]],
      [type |-> "object", isNull |-> FALSE, fields |-> [max |-> "string", sort |-> "string"]] }

NoError == [threw |-> FALSE, error |-> "none", namespace |-> ""]
Thrown(kind) == [threw |-> TRUE, error |-> kind, namespace |-> ""]

\* typeof config[requiredConfigName]; a string and undefined are indexable (the
\* lookup gives undefined, as for a missing field), null is not.
TypeofField(config, requiredConfigName) ==
    IF requiredConfigName \in DOMAIN config.fields
    THEN config.fields[requiredConfigName]
    ELSE "undefined"

\* Array.prototype.concat returns a new array and leaves the receiver alone.
Concat(array, item) == Append(array, item)

CheckConfigPrerequisiteSatisfied(connectorName, propName, requiredConfigName, config) ==
    LET missingParams == <<>>
        \* the three `missingParams.concat(...)` statements drop their results
        dropped1 == IF connectorName = "" THEN Concat(missingParams, "connectorName")
                    ELSE missingParams
        dropped2 == IF propName = "" THEN Concat(missingParams, "propName")
                    ELSE missingParams
        dropped3 == IF requiredConfigName = "" THEN Concat(missingParams, "requiredConfigName")
                    ELSE missingParams
    IN  IF Len(missingParams) # 0 THEN Thrown("NoValueForParams")
        ELSE IF config.type # "object" THEN Thrown("ConfigPropertyRequired")
        ELSE IF config.isNull THEN Thrown("TypeError")
        ELSE IF TypeofField(config, requiredConfigName) # "string"
             THEN Thrown("ConfigPropertyRequired")
        ELSE NoError

NoChecked == [pc |-> "idle", connectorName |-> "", propName |-> "",
              requiredConfigName |-> "", config |-> CHOOSE c \in Configs : c.type = "undefined",
              outcome |-> NoError]

CheckConfig ==
    /\ checked.pc = "start"
    /\ checked' = [checked EXCEPT
                     !.pc = "done",
                     !.outcome = CheckConfigPrerequisiteSatisfied(
                         checked.connectorName, checked.propName,
                         checked.requiredConfigName, checked.config)]
    /\ UNCHANGED <<store, reduced, mapped, combined, bound, returned, console>>

(***************************************************************************)
(* Namespace connectors: propAs, the state mapper and the dispatch mapper. *)
(***************************************************************************)
\* A plain string entry of propsToConnect / actionsToConnect.
Str(name) == [kind |-> "string", name |-> name]

\* propAs(actionOrStateIndex, propName): new AsPropRenamer(...)
PropAs(actionOrStateIndex, propName) ==
    [kind |-> "AsPropRenamer", actionOrStateIndex |-> actionOrStateIndex,
     propName |-> propName]

IsRenamer(entry) == entry.kind = "AsPropRenamer"

\* An entry used as a property key: a string is itself, an object is coerced.
KeyOf(entry) == IF entry.kind = "string" THEN entry.name ELSE "[object Object]"

\* An array argument, or one of the non-array values a caller may pass.
ArrayArg(items) == [type |-> "array", items |-> items]
NonArrayArg(type) == [type |-> type, items |-> <<>>]
IsArray(arg) == arg.type = "array"
Truthy(arg) == arg.type \in {"array", "string", "object"}

\* The override functions the application registers: (state, ownProps, config) -> value.
\* Each derives a number that tells its three arguments apart.
Override(name, state, ownProps, config) ==
    (IF name = "derivedCount" THEN 1000 ELSE 2000)
    + 100 * (IF "count" \in DOMAIN state THEN state["count"] + 1 ELSE 0)
    + 10 * (ownProps + 1)
    + (IF IsUndefined(config) THEN 0 ELSE config[1] + 1)

ConnectorIds == {"connectA", "connectB"}

\* The arguments of the createNamespaceConnector calls of the application.
ConnectorDef(c) ==
    IF c = "connectA"
    THEN [reduxNamespace |-> "a",
          allActionsObj |-> [inc |-> "a.inc", reset |-> "a.reset"],
          propOverrides |-> [count |-> "derivedCount"]]
    ELSE [reduxNamespace |-> "b",
          allActionsObj |-> [reset |-> "b.reset", setTotal |-> "b.setTotal"],
          propOverrides |-> [summary |-> "derivedSummary"]]

NoNamespaceError(reduxNamespace) ==
    [threw |-> TRUE, error |-> "UnableToFindStateNamespace", namespace |-> reduxNamespace]

Warning(what, name) == [warning |-> what, name |-> name]

\* The step with the state pass-through tried before the override.
MapStateStepStateFirst(acc, propName, propOverrides, state, ownProps, config) ==
    IF propName.kind = "string" /\ propName.name \in DOMAIN state
    THEN [acc EXCEPT !.props = Put(acc.props, propName.name, state[propName.name])]
    ELSE IF KeyOf(propName) \in DOMAIN propOverrides
    THEN [acc EXCEPT !.props = Put(acc.props, KeyOf(propName),
                Override(propOverrides[KeyOf(propName)], state, ownProps, config))]
    ELSE IF IsRenamer(propName) /\ propName.actionOrStateIndex \in DOMAIN state
    THEN [acc EXCEPT !.props = Put(acc.props, propName.propName,
                state[propName.actionOrStateIndex])]
    ELSE IF IsRenamer(propName) /\ propName.actionOrStateIndex \in DOMAIN propOverrides
    THEN [acc EXCEPT !.props = Put(acc.props, propName.propName,
                Override(propOverrides[propName.actionOrStateIndex], state, ownProps, config))]
    ELSE [acc EXCEPT !.warnings = Append(acc.warnings,
                Warning("invalid state key name",
                        IF IsRenamer(propName) THEN propName.actionOrStateIndex
                        ELSE propName.name))]

\* The step with an invalid entry ending the mapping: what was mapped is dropped.
MapStateStepAborts(acc, propName, propOverrides, state, ownProps, config) ==
    IF KeyOf(propName) \in DOMAIN propOverrides
    THEN [acc EXCEPT !.props = Put(acc.props, KeyOf(propName),
                Override(propOverrides[KeyOf(propName)], state, ownProps, config))]
    ELSE IF propName.kind = "string" /\ propName.name \in DOMAIN state
    THEN [acc EXCEPT !.props = Put(acc.props, propName.name, state[propName.name])]
    ELSE IF IsRenamer(propName) /\ propName.actionOrStateIndex \in DOMAIN state
    THEN [acc EXCEPT !.props = Put(acc.props, propName.propName,
                state[propName.actionOrStateIndex])]
    ELSE IF IsRenamer(propName) /\ propName.actionOrStateIndex \in DOMAIN propOverrides
    THEN [acc EXCEPT !.props = Put(acc.props, propName.propName,
                Override(propOverrides[propName.actionOrStateIndex], state, ownProps, config))]
    ELSE [props |-> EmptyObj,
          warnings |-> Append(acc.warnings,
                Warning("invalid state key name",
                        IF IsRenamer(propName) THEN propName.actionOrStateIndex
                        ELSE propName.name))]

\* One step of the state mapper's reduce over propsToConnect: acc is the props
\* object built so far with the warnings logged so far.
MapStateStep(acc, propName, propOverrides, state, ownProps, config) ==
    IF KeyOf(propName) \in DOMAIN propOverrides
    THEN [acc EXCEPT !.props = Put(acc.props, KeyOf(propName),
                Override(propOverrides[KeyOf(propName)], state, ownProps, config))]
    ELSE IF propName.kind = "string" /\ propName.name \in DOMAIN state
    THEN [acc EXCEPT !.props = Put(acc.props, propName.name, state[propName.name])]
    ELSE IF IsRenamer(propName) /\ propName.actionOrStateIndex \in DOMAIN state
    THEN [acc EXCEPT !.props = Put(acc.props, propName.propName,
                state[propName.actionOrStateIndex])]
    ELSE IF IsRenamer(propName) /\ propName.actionOrStateIndex \in DOMAIN propOverrides
    THEN [acc EXCEPT !.props = Put(acc.props, propName.propName,
                Override(propOverrides[propName.actionOrStateIndex], state, ownProps, config))]
    ELSE [acc EXCEPT !.warnings = Append(acc.warnings,
                Warning("invalid state key name",
                        IF IsRenamer(propName) THEN propName.actionOrStateIndex
                        ELSE propName.name))]

RECURSIVE MapStateReduce(_, _, _, _, _)
MapStateReduce(items, propOverrides, state, ownProps, config) ==
    IF items = <<>> THEN [props |-> EmptyObj, warnings |-> <<>>]
    ELSE LET n == Len(items)
         IN  MapStateStep(
                 MapStateReduce(SubSeq(items, 1, n - 1), propOverrides, state, ownProps, config),
                 items[n], propOverrides, state, ownProps, config)

\* The state mapper without the array guard: reduce is called on a non-array.
CreateMapStateToPropsFuncNoArrayGuard(reduxNamespace, propOverrides, propsToConnect, config, rootState, ownProps) ==
    IF reduxNamespace \notin DOMAIN rootState
    THEN [error |-> NoNamespaceError(reduxNamespace), props |-> EmptyObj, warnings |-> <<>>]
    ELSE IF ~IsArray(propsToConnect)
    THEN [error |-> Thrown("TypeError"), props |-> EmptyObj, warnings |-> <<>>]
    ELSE LET out == MapStateReduce(propsToConnect.items, propOverrides,
                                   rootState[reduxNamespace], ownProps, config)
         IN  [error |-> NoError, props |-> out.props, warnings |-> out.warnings]

\* The state mapper taking a missing namespace for an empty one.
CreateMapStateToPropsFuncNoStateCheck(reduxNamespace, propOverrides, propsToConnect, config, rootState, ownProps) ==
    IF ~IsArray(propsToConnect)
    THEN [error |-> NoError, props |-> EmptyObj, warnings |-> <<>>]
    ELSE LET out == MapStateReduce(propsToConnect.items, propOverrides,
                                   IF reduxNamespace \in DOMAIN rootState
                                   THEN rootState[reduxNamespace] ELSE EmptyObj,
                                   ownProps, config)
         IN  [error |-> NoError, props |-> out.props, warnings |-> out.warnings]

\* createMapStateToPropsFunc(reduxNamespace, propOverrides, propsToConnect, config)
\* applied to (rootState, ownProps).
CreateMapStateToPropsFunc(reduxNamespace, propOverrides, propsToConnect, config, rootState, ownProps) ==
    IF reduxNamespace \notin DOMAIN rootState
    THEN [error |-> NoNamespaceError(reduxNamespace), props |-> EmptyObj, warnings |-> <<>>]
    ELSE IF ~IsArray(propsToConnect)
    THEN [error |-> NoError, props |-> EmptyObj, warnings |-> <<>>]
    ELSE LET out == MapStateReduce(propsToConnect.items, propOverrides,
                                   rootState[reduxNamespace], ownProps, config)
         IN  [error |-> NoError, props |-> out.props, warnings |-> out.warnings]

\* One step of the dispatch mapper's reduce over actionsToConnect.
MapDispatchStep(acc, actionName, allActionsObj) ==
    IF actionName.kind = "string" /\ actionName.name \in DOMAIN allActionsObj
    THEN [acc EXCEPT !.props = Put(acc.props, actionName.name, allActionsObj[actionName.name])]
    ELSE IF IsRenamer(actionName) /\ actionName.actionOrStateIndex \in DOMAIN allActionsObj
    THEN [acc EXCEPT !.props = Put(acc.props, actionName.propName,
                allActionsObj[actionName.actionOrStateIndex])]
    ELSE [acc EXCEPT !.warnings = Append(acc.warnings,
                Warning("invalid action name", KeyOf(actionName)))]

RECURSIVE MapDispatchReduce(_, _)
MapDispatchReduce(items, allActionsObj) ==
    IF items = <<>> THEN [props |-> EmptyObj, warnings |-> <<>>]
    ELSE LET n == Len(items)
         IN  MapDispatchStep(MapDispatchReduce(SubSeq(items, 1, n - 1), allActionsObj),
                             items[n], allActionsObj)

\* createMapDispatchToPropsObj(allActionsObj, actionsToConnect)
CreateMapDispatchToPropsObj(allActionsObj, actionsToConnect) ==
    MapDispatchReduce(actionsToConnect.items, allActionsObj)

\* connector.curriedCreateMapStateToProps(propsToConnect, config): the closure, as
\* the arguments it holds.
CurriedCreateMapStateToProps(c, propsToConnect, config) ==
    [kind |-> "connector", connector |-> c, propsToConnect |-> propsToConnect,
     config |-> config, fn |-> ""]

\* connector.curriedCreateMapDispatchToProps(actionsToConnect), with `|| []`
CurriedCreateMapDispatchToProps(c, actionsToConnect) ==
    CreateMapDispatchToPropsObj(
        ConnectorDef(c).allActionsObj,
        IF Truthy(actionsToConnect) THEN actionsToConnect ELSE ArrayArg(<<>>))

(***************************************************************************)
(* The inputs of the connector calls under test.                           *)
(***************************************************************************)
\* The reducer lists an application may pass to combineNamespacedReducers.
ReducerLists ==
    {rs \in SeqsUpTo(ReducerIds, MaxReducers) : Cardinality(Range(rs)) = Len(rs)}

\* The root states a store built from those reducers holds after its creation
\* and after one dispatched action.
StoreStatesOf(reduxReducers) ==
    LET indexed == CombineNamespacedReducers(reduxReducers)
        created == CombinedReducer(indexed, Undefined, InitAction)
    IN  {created} \cup {CombinedReducer(indexed, Some(created), a) : a \in Actions}

RootStates == UNION {StoreStatesOf(rs) : rs \in ReducerLists}

OwnProps == 0..1
ConfigArgs == {Undefined, Some(1)}

PropEntries ==
    {Str("count"), Str("total"), Str("summary"), Str("missing"),
     PropAs("count", "total"), PropAs("summary", "count"), PropAs("missing", "total")}

ActionEntries ==
    {Str("inc"), Str("reset"), Str("missing"), PropAs("reset", "clear"),
     PropAs("missing", "inc")}

PropsArgs ==
    {ArrayArg(items) : items \in SeqsUpTo(PropEntries, MaxProps)}
    \cup {NonArrayArg("undefined"), NonArrayArg("null"), NonArrayArg("string"),
          NonArrayArg("object")}

ActionsArgs ==
    {ArrayArg(items) : items \in SeqsUpTo(ActionEntries, MaxProps)}
    \cup {NonArrayArg("undefined"), NonArrayArg("null")}

\* The (propsToConnect, actionsToConnect) pairs of the connector calls under test:
\* every props argument without actions, and every actions argument
\* with the props left out or a single valid prop.
ConnectorArgs ==
    {<<p, NonArrayArg("undefined")>> : p \in PropsArgs}
    \cup {<<p, a>> : p \in {NonArrayArg("undefined"), ArrayArg(<<Str("count")>>)},
                     a \in ActionsArgs}

\* The root states a bound component is rendered with.
BindStates ==
    {CombinedReducer(CombineNamespacedReducers(rs), Undefined, InitAction) :
        rs \in {<<"R1", "R2">>, <<"R1">>, <<"R2">>}}

\* The own props a bound component is rendered with.
BindOwnProps == {1}

\* connector(propsToConnect = [], actionsToConnect, config = {}): the defaults
DefaultProps(propsToConnect) ==
    IF propsToConnect.type = "undefined" THEN ArrayArg(<<>>) ELSE propsToConnect
DefaultConfig(config) == IF IsUndefined(config) THEN Some(0) ELSE config

NoMapped == [pc |-> "idle", connector |-> "connectA",
             propsToConnect |-> NonArrayArg("undefined"),
             actionsToConnect |-> NonArrayArg("undefined"),
             config |-> Undefined, rootState |-> EmptyObj, ownProps |-> 0,
             dispatchProps |-> EmptyObj,
             error |-> NoError, stateProps |-> EmptyObj]

\* connector(propsToConnect, actionsToConnect, config): the dispatch object is
\* built at once, the state mapper is handed to connect.
ConnectorCall ==
    /\ mapped.pc = "start"
    /\ LET out == CreateMapDispatchToPropsObj(
                      ConnectorDef(mapped.connector).allActionsObj,
                      IF Truthy(mapped.actionsToConnect) THEN mapped.actionsToConnect
                      ELSE ArrayArg(<<>>))
       IN  /\ mapped' = [mapped EXCEPT !.pc = "connected", !.dispatchProps = out.props]
           /\ console' = out.warnings
    /\ UNCHANGED <<store, reduced, checked, combined, bound, returned>>

\* react-redux calls the state mapper with the root state and the own props.
MapStateToProps ==
    /\ mapped.pc = "connected"
    /\ LET def == ConnectorDef(mapped.connector)
           out == CreateMapStateToPropsFunc(
                      def.reduxNamespace, def.propOverrides,
                      DefaultProps(mapped.propsToConnect), DefaultConfig(mapped.config),
                      mapped.rootState, mapped.ownProps)
       IN  /\ mapped' = [mapped EXCEPT !.pc = "mapped", !.error = out.error,
                                       !.stateProps = out.props]
           /\ console' = out.warnings
    /\ UNCHANGED <<store, reduced, checked, combined, bound, returned>>

(***************************************************************************)
(* combineConnectors: the chainable combined connector.                    *)
(***************************************************************************)
\* One [connector, propsToConnect, actionsToConnect, config] array.
Entry(c, propsToConnect, actionsToConnect, config) ==
    [connector |-> c, propsToConnect |-> propsToConnect,
     actionsToConnect |-> actionsToConnect, config |-> config]

\* The entries the application combines: connectA and connectB both expose
\* `count` and `reset`; one entry connects actions only, one an invalid prop.
Entries ==
    { Entry("connectA", ArrayArg(<<Str("count")>>),
            ArrayArg(<<Str("inc"), Str("reset")>>), Some(1)),
      Entry("connectB", ArrayArg(<<Str("count"), PropAs("total", "sum")>>),
            ArrayArg(<<Str("reset")>>), Undefined),
      Entry("connectB", NonArrayArg("undefined"),
            ArrayArg(<<PropAs("setTotal", "inc"), Str("missing")>>), Undefined),
      Entry("connectA", ArrayArg(<<Str("missing"), PropAs("count", "sum")>>),
            NonArrayArg("undefined"), Undefined) }

\* The custom state mappers passed to .connect: (state, ownProps) -> props.
CustomMapStateToProps(fn, rootState, ownProps) ==
    IF fn = "ownCount" THEN [count |-> 500 + ownProps]
    ELSE [namespaces |-> Cardinality(DOMAIN rootState)]

\* The arguments of a .connect call; each may be left out.
ConnectArgs ==
    { [customMapStateToProps |-> Some("ownCount"),
       customMapDispatchToProps |-> Some([reset |-> "custom.reset"]),
       customMergeProps |-> Some("mergeOne"), customOptions |-> Some("optionsOne")],
      [customMapStateToProps |-> Some("countNamespaces"),
       customMapDispatchToProps |-> Undefined,
       customMergeProps |-> Some("mergeTwo"), customOptions |-> Undefined],
      [customMapStateToProps |-> Undefined,
       customMapDispatchToProps |-> Some([inc |-> "custom.inc"]),
       customMergeProps |-> Undefined, customOptions |-> Undefined] }

NoBuilder == [constructed |-> FALSE, stateMappers |-> <<>>, mappedDispatches |-> <<>>,
              mergeProps |-> Undefined, options |-> Undefined, calls |-> <<>>]

\* const stateMappers = []; const mappedDispatches = [{}]; let mergeProps; let options
NewBuilder == [constructed |-> TRUE, stateMappers |-> <<>>, mappedDispatches |-> <<EmptyObj>>,
               mergeProps |-> Undefined, options |-> Undefined, calls |-> <<>>]

\* A custom state mapper, as the closure the builder holds.
CustomMapper(fn) ==
    [kind |-> "custom", connector |-> "", propsToConnect |-> NonArrayArg("undefined"),
     config |-> Undefined, fn |-> fn]

\* stateMapper(state, ownProps) for one accumulated state mapper
CallStateMapper(stateMapper, rootState, ownProps) ==
    IF stateMapper.kind = "connector"
    THEN LET def == ConnectorDef(stateMapper.connector)
         IN  CreateMapStateToPropsFunc(def.reduxNamespace, def.propOverrides,
                                       stateMapper.propsToConnect, stateMapper.config,
                                       rootState, ownProps)
    ELSE [error |-> NoError,
          props |-> CustomMapStateToProps(stateMapper.fn, rootState, ownProps),
          warnings |-> <<>>]

\* combinedMapStateToPropsFuncs' forEach: mappedStates = [{}] followed by every
\* state mapper's output; a mapper that throws ends the loop.
RECURSIVE MappedStates(_, _, _)
MappedStates(stateMappers, rootState, ownProps) ==
    IF stateMappers = <<>>
    THEN [error |-> NoError, objs |-> <<EmptyObj>>, warnings |-> <<>>]
    ELSE LET n == Len(stateMappers)
             before == MappedStates(SubSeq(stateMappers, 1, n - 1), rootState, ownProps)
             out == CallStateMapper(stateMappers[n], rootState, ownProps)
         IN  IF before.error.threw THEN before
             ELSE [error |-> out.error,
                   objs |-> Append(before.objs, out.props),
                   warnings |-> before.warnings \o out.warnings]

\* combinedMapStateToPropsFuncs(state, ownProps)
CombinedMapStateToPropsFuncs(stateMappers, rootState, ownProps) ==
    LET mappedStates == MappedStates(stateMappers, rootState, ownProps)
    IN  IF mappedStates.error.threw
        THEN [error |-> mappedStates.error, props |-> EmptyObj,
              warnings |-> mappedStates.warnings]
        ELSE [error |-> NoError, props |-> AssignAll(mappedStates.objs),
              warnings |-> mappedStates.warnings]

\* pushFunc(connector, propsToConnect, actionsToConnect, config) on a builder's
\* accumulators: the builder after the call, and the warnings of the call.
PushFunc(builder, entry) ==
    LET mapper == CurriedCreateMapStateToProps(entry.connector, entry.propsToConnect,
                                               entry.config)
        dispatch == CurriedCreateMapDispatchToProps(entry.connector, entry.actionsToConnect)
    IN  [builder |->
            [builder EXCEPT
                !.stateMappers = IF Truthy(entry.propsToConnect)
                                 THEN Append(@, mapper) ELSE @,
                !.mappedDispatches = IF Truthy(entry.actionsToConnect)
                                     THEN Append(@, dispatch.props) ELSE @],
         warnings |-> IF Truthy(entry.actionsToConnect) THEN dispatch.warnings ELSE <<>>]

\* A connect that keeps the earlier mergeProps and options when a later call
\* leaves them out.
ConnectFuncKeepsEarlier(builder, args) ==
    [builder EXCEPT
        !.stateMappers = IF ~IsUndefined(args.customMapStateToProps)
                         THEN Append(@, CustomMapper(args.customMapStateToProps[1])) ELSE @,
        !.mappedDispatches = IF ~IsUndefined(args.customMapDispatchToProps)
                             THEN Append(@, args.customMapDispatchToProps[1]) ELSE @,
        !.mergeProps = IF IsUndefined(args.customMergeProps) THEN @
                       ELSE args.customMergeProps,
        !.options = IF IsUndefined(args.customOptions) THEN @ ELSE args.customOptions]

\* connectFunc(customMapStateToProps, customMapDispatchToProps, customMergeProps,
\* customOptions) on a builder's accumulators.
ConnectFunc(builder, args) ==
    [builder EXCEPT
        !.stateMappers = IF ~IsUndefined(args.customMapStateToProps)
                         THEN Append(@, CustomMapper(args.customMapStateToProps[1])) ELSE @,
        !.mappedDispatches = IF ~IsUndefined(args.customMapDispatchToProps)
                             THEN Append(@, args.customMapDispatchToProps[1]) ELSE @,
        !.mergeProps = args.customMergeProps,
        !.options = args.customOptions]

\* The constructor's loop pushing the entries from the last to the first.
RECURSIVE PushEachReversed(_, _)
PushEachReversed(builder, connectorsAndParams) ==
    IF connectorsAndParams = <<>> THEN [builder |-> builder, warnings |-> <<>>]
    ELSE LET pushed == PushFunc(builder, connectorsAndParams[Len(connectorsAndParams)])
             rest == PushEachReversed(pushed.builder,
                        SubSeq(connectorsAndParams, 1, Len(connectorsAndParams) - 1))
         IN  [builder |-> rest.builder, warnings |-> pushed.warnings \o rest.warnings]

\* connectorsAndParams.forEach(([connector, propsToConnect, actionsToConnect, config])
\*   => pushFunc(...)) on the new builder.
RECURSIVE PushEach(_, _)
PushEach(builder, connectorsAndParams) ==
    IF connectorsAndParams = <<>> THEN [builder |-> builder, warnings |-> <<>>]
    ELSE LET n == Len(connectorsAndParams)
             before == PushEach(builder, SubSeq(connectorsAndParams, 1, n - 1))
             pushed == PushFunc(before.builder, connectorsAndParams[n])
         IN  [builder |-> pushed.builder, warnings |-> before.warnings \o pushed.warnings]

\* What a call left in the ghost record of the calls issued on a builder.
Call(op, entry, args) == [op |-> op, entry |-> entry, args |-> args]
NoEntry == Entry("", NonArrayArg("undefined"), NonArrayArg("undefined"), Undefined)
NoArgs == [customMapStateToProps |-> Undefined, customMapDispatchToProps |-> Undefined,
           customMergeProps |-> Undefined, customOptions |-> Undefined]

NoReturn == [call |-> "none", value |-> "none", error |-> NoError]

NoBound == [via |-> "none", calls |-> <<>>, rootState |-> EmptyObj,
            ownProps |-> 0, error |-> NoError, stateProps |-> EmptyObj,
            dispatchProps |-> EmptyObj, mergeProps |-> Undefined, options |-> Undefined,
            target |-> EmptyObj]

\* combineConnectors(...connectorsAndParams).  A nested array as the first
\* argument throws before anything is built.
CombineConnectors(nested, connectorsAndParams) ==
    /\ ~combined.constructed
    /\ IF nested
       THEN /\ returned' = [call |-> "combineConnectors", value |-> "none",
                            error |-> Thrown("InvalidFirstArgument")]
            /\ console' = <<>>
            /\ UNCHANGED combined
       ELSE LET built == PushEach(NewBuilder, connectorsAndParams)
            IN  /\ combined' = [built.builder EXCEPT !.calls =
                        [i \in 1..Len(connectorsAndParams) |->
                            Call("entry", connectorsAndParams[i], NoArgs)]]
                /\ returned' = [call |-> "combineConnectors",
                                value |-> "combinedConnectors", error |-> NoError]
                /\ console' = built.warnings
    /\ UNCHANGED <<store, reduced, checked, mapped, bound>>

\* combinedConnectors.push(connector, propsToConnect, actionsToConnect, config)
Push(entry) ==
    /\ combined.constructed
    /\ Len(combined.calls) < MaxCalls
    /\ LET pushed == PushFunc(combined, entry)
       IN  /\ combined' = [pushed.builder EXCEPT
                                !.calls = Append(@, Call("push", entry, NoArgs))]
           /\ console' = pushed.warnings
    /\ returned' = [call |-> "push", value |-> "combinedConnectors", error |-> NoError]
    /\ UNCHANGED <<store, reduced, checked, mapped, bound>>

\* combinedConnectors.connect(customMapStateToProps, customMapDispatchToProps,
\*                            customMergeProps, customOptions)
Connect(args) ==
    /\ combined.constructed
    /\ Len(combined.calls) < MaxCalls
    /\ combined' = [ConnectFunc(combined, args) EXCEPT
                        !.calls = Append(@, Call("connect", NoEntry, args))]
    /\ returned' = [call |-> "connect", value |-> "combinedConnectors", error |-> NoError]
    /\ console' = <<>>
    /\ UNCHANGED <<store, reduced, checked, mapped, bound>>

\* An application that uses its accumulators up: the state mappers it combined
\* are taken off the builder.
ApplyDrains(rootState, ownProps) ==
    /\ combined.constructed
    /\ LET combinedMapDispatchToPropsObjects == AssignAll(combined.mappedDispatches)
           out == CombinedMapStateToPropsFuncs(combined.stateMappers, rootState, ownProps)
       IN  /\ combined' = [combined EXCEPT
                            !.mappedDispatches[1] = combinedMapDispatchToPropsObjects,
                            !.stateMappers = <<>>]
           /\ bound' = [via |-> "combined", calls |-> combined.calls,
                        rootState |-> rootState, ownProps |-> ownProps,
                        error |-> out.error, stateProps |-> out.props,
                        dispatchProps |-> combinedMapDispatchToPropsObjects,
                        mergeProps |-> combined.mergeProps,
                        options |-> combined.options,
                        target |-> combined.mappedDispatches[1]]
           /\ console' = out.warnings
    /\ returned' = [call |-> "combinedConnectors", value |-> "component", error |-> NoError]
    /\ UNCHANGED <<store, reduced, checked, mapped>>

\* combinedConnectors(TargetComponent), and the first rendering of the bound
\* component: Object.assign(...mappedDispatches) merges into mappedDispatches[0],
\* connect gets the combined mappers with mergeProps and options, and react-redux
\* calls the combined state mapper with the root state and the own props.
Apply(rootState, ownProps) ==
    /\ combined.constructed
    /\ LET combinedMapDispatchToPropsObjects == AssignAll(combined.mappedDispatches)
           out == CombinedMapStateToPropsFuncs(combined.stateMappers, rootState, ownProps)
       IN  /\ combined' = [combined EXCEPT
                            !.mappedDispatches[1] = combinedMapDispatchToPropsObjects]
           /\ bound' = [via |-> "combined", calls |-> combined.calls,
                        rootState |-> rootState, ownProps |-> ownProps,
                        error |-> out.error, stateProps |-> out.props,
                        dispatchProps |-> combinedMapDispatchToPropsObjects,
                        mergeProps |-> combined.mergeProps,
                        options |-> combined.options,
                        target |-> combined.mappedDispatches[1]]
           /\ console' = out.warnings
    /\ returned' = [call |-> "combinedConnectors", value |-> "component", error |-> NoError]
    /\ UNCHANGED <<store, reduced, checked, mapped>>

\* connector(propsToConnect, actionsToConnect, config)(TargetComponent), and the
\* first rendering of the bound component.
UseConnector(entry, rootState, ownProps) ==
    /\ LET def == ConnectorDef(entry.connector)
           dispatch == CreateMapDispatchToPropsObj(
                           def.allActionsObj,
                           IF Truthy(entry.actionsToConnect) THEN entry.actionsToConnect
                           ELSE ArrayArg(<<>>))
           out == CreateMapStateToPropsFunc(
                      def.reduxNamespace, def.propOverrides,
                      DefaultProps(entry.propsToConnect), DefaultConfig(entry.config),
                      rootState, ownProps)
       IN  /\ bound' = [via |-> "connector",
                        calls |-> <<Call("entry", entry, NoArgs)>>,
                        rootState |-> rootState, ownProps |-> ownProps,
                        error |-> out.error, stateProps |-> out.props,
                        dispatchProps |-> dispatch.props,
                        mergeProps |-> Undefined, options |-> Undefined,
                        target |-> EmptyObj]
           /\ console' = dispatch.warnings \o out.warnings
           /\ returned' = [call |-> "connector", value |-> "component", error |-> NoError]
    /\ UNCHANGED <<store, reduced, checked, mapped, combined>>

(***************************************************************************)
(* Specifications.                                                         *)
(***************************************************************************)
\* The combined connectors of an application, and its direct connector calls.
Init ==
    /\ store = NoStore
    /\ reduced = NoReduced
    /\ checked = NoChecked
    /\ mapped = NoMapped
    /\ combined = NoBuilder
    /\ bound = NoBound
    /\ returned = NoReturn
    /\ console = <<>>

Next ==
    \/ \E nested \in BOOLEAN, es \in SeqsUpTo(Entries, MaxCalls) :
            CombineConnectors(nested, es)
    \/ \E e \in Entries : Push(e)
    \/ \E args \in ConnectArgs : Connect(args)
    \/ \E root \in BindStates, own \in BindOwnProps : Apply(root, own)
    \/ \E e \in Entries, root \in BindStates, own \in BindOwnProps :
            UseConnector(e, root, own)

Spec == Init /\ [][Next]_vars

\* The store of an application and direct calls of its reducers.
NextReducer ==
    \/ \E rs \in ReducerLists : CreateStore(rs)
    \/ \E a \in Actions : Dispatch(a)

SpecReducer == Init /\ [][NextReducer]_vars

\* One direct call of a namespaced reducer, over its arguments.
InitCall ==
    /\ store = NoStore
    /\ \E r \in ReducerIds, s \in {Undefined} \cup {Some(st) : st \in NamespaceStates},
          a \in Actions :
            reduced = [called |-> FALSE, reducer |-> r, state |-> s, action |-> a,
                       result |-> EmptyObj]
    /\ checked = NoChecked
    /\ mapped = NoMapped
    /\ combined = NoBuilder
    /\ bound = NoBound
    /\ returned = NoReturn
    /\ console = <<>>

SpecCall == InitCall /\ [][CallReducer]_vars

\* One call of checkConfigPrerequisiteSatisfied, over all its arguments.
InitCheck ==
    /\ store = NoStore
    /\ reduced = NoReduced
    /\ checked \in [pc : {"start"}, connectorName : Names, propName : Names,
                     requiredConfigName : ConfigNames, config : Configs,
                     outcome : {NoError}]
    /\ mapped = NoMapped
    /\ combined = NoBuilder
    /\ bound = NoBound
    /\ returned = NoReturn
    /\ console = <<>>

SpecCheck == InitCheck /\ [][CheckConfig]_vars

\* One direct use of a namespace connector, over its arguments and the root state.
InitMapper ==
    /\ store = NoStore
    /\ reduced = NoReduced
    /\ checked = NoChecked
    /\ \E c \in ConnectorIds, args \in ConnectorArgs, cfg \in ConfigArgs,
          root \in RootStates, own \in OwnProps :
            mapped = [pc |-> "start", connector |-> c,
                      propsToConnect |-> args[1], actionsToConnect |-> args[2],
                      config |-> cfg, rootState |-> root, ownProps |-> own,
                      dispatchProps |-> EmptyObj, error |-> NoError,
                      stateProps |-> EmptyObj]
    /\ combined = NoBuilder
    /\ bound = NoBound
    /\ returned = NoReturn
    /\ console = <<>>

NextMapper == ConnectorCall \/ MapStateToProps

SpecMapper == InitMapper /\ [][NextMapper]_vars

(***************************************************************************)
(* Properties.                                                             *)
(***************************************************************************)

\* C1: the reducer made by createNamespacedReducer returns handler(state, action)
\* of the table's handler when action.type is registered and the input state
\* unchanged when it is not; an undefined input state is replaced by
\* initialState before either case.
C1_ReducerFollowsTable ==
    reduced.called =>
        LET def == ReducerDef(reduced.reducer)
            input == IF reduced.state = Undefined THEN def.initialState
                     ELSE reduced.state[1]
        IN  /\ reduced.action.type \in DOMAIN def.reducerFunctions =>
                reduced.result =
                    Handler(def.reducerFunctions[reduced.action.type], input, reduced.action)
            /\ reduced.action.type \notin DOMAIN def.reducerFunctions =>
                reduced.result = input

\* A registered handler ran on the initial state that replaced an undefined state.
C1_Witness ==
    /\ reduced.called
    /\ reduced.state = Undefined
    /\ reduced.action.type \in DOMAIN ReducerDef(reduced.reducer).reducerFunctions
    /\ reduced.result # ReducerDef(reduced.reducer).initialState

\* C2: checkConfigPrerequisiteSatisfied throws exactly when one of the three
\* names is falsy, or config is not an object, or config[requiredConfigName]
\* is not a string.
C2_FailsFastOnBadArguments ==
    checked.pc = "done" =>
        (checked.outcome.threw <=>
            \/ checked.connectorName = ""
            \/ checked.propName = ""
            \/ checked.requiredConfigName = ""
            \/ checked.config.type # "object"
            \/ TypeofField(checked.config, checked.requiredConfigName) # "string")

\* C8: with reducers of distinct namespaces combined, the root state has exactly
\* one sub-state per namespace, and a dispatched action leaves unchanged the
\* sub-state of every reducer whose table has no handler for the action's type.
C8_DispatchFrame ==
    (store.created /\ \A i, j \in 1..Len(store.reducers) :
        ReduxNamespace(store.reducers[i]) = ReduxNamespace(store.reducers[j]) => i = j)
    =>  /\ DOMAIN store.state = {ReduxNamespace(r) : r \in Range(store.reducers)}
        /\ \A r \in Range(store.reducers) :
            (/\ store.prev # Undefined
             /\ store.action.type \notin DOMAIN ReducerDef(r).reducerFunctions)
            => store.state[ReduxNamespace(r)] = store.prev[1][ReduxNamespace(r)]

\* An action handled by one of two combined reducers changed that reducer's
\* sub-state only.
C8_Witness ==
    /\ store.created
    /\ store.reducers = <<"R1", "R2">>
    /\ store.prev # Undefined
    /\ store.action.type = "a/INC"
    /\ store.state["a"] # store.prev[1]["a"]
    /\ store.state["b"] = store.prev[1]["b"]

(***************************************************************************)
(* The connector call under test, as its state mapper sees it.             *)
(***************************************************************************)
MappedDef == ConnectorDef(mapped.connector)
MappedHasState == MappedDef.reduxNamespace \in DOMAIN mapped.rootState
MappedState == mapped.rootState[MappedDef.reduxNamespace]
MappedItems == DefaultProps(mapped.propsToConnect).items
MappedActions ==
    IF Truthy(mapped.actionsToConnect) THEN mapped.actionsToConnect.items ELSE <<>>

\* The state key or action name an entry selects, and the prop it is stored under.
SourceOf(entry) == IF IsRenamer(entry) THEN entry.actionOrStateIndex ELSE entry.name
TargetOf(entry) == IF IsRenamer(entry) THEN entry.propName ELSE entry.name

\* The value the precedence rules of the state mapper give an entry.
ResolvedValue(entry) ==
    LET derived(name) == Override(MappedDef.propOverrides[name], MappedState,
                                  mapped.ownProps, DefaultConfig(mapped.config))
    IN  IF ~IsRenamer(entry) /\ entry.name \in DOMAIN MappedDef.propOverrides
        THEN derived(entry.name)
        ELSE IF ~IsRenamer(entry) THEN MappedState[entry.name]
        ELSE IF entry.actionOrStateIndex \in DOMAIN MappedState
        THEN MappedState[entry.actionOrStateIndex]
        ELSE derived(entry.actionOrStateIndex)

ValidProp(entry) ==
    SourceOf(entry) \in (DOMAIN MappedState) \cup (DOMAIN MappedDef.propOverrides)
ValidAction(entry) == SourceOf(entry) \in DOMAIN MappedDef.allActionsObj

\* C3: each requested entry is resolved by precedence: an override registered
\* under a plain entry wins, also over a state key of the same name; else a plain
\* entry in state passes through under its name; else a renaming directive whose
\* source is in state passes through under its target; else a directive whose
\* source is an override is derived under its target.  The result has exactly
\* the keys these rules produce (a later entry of the same key replacing an
\* earlier one).
C3_StateMapperPrecedence ==
    (mapped.pc = "mapped" /\ MappedHasState /\ IsArray(DefaultProps(mapped.propsToConnect)))
    =>  /\ DOMAIN mapped.stateProps =
                {TargetOf(MappedItems[i]) :
                    i \in {j \in 1..Len(MappedItems) : ValidProp(MappedItems[j])}}
        /\ \A k \in DOMAIN mapped.stateProps :
            LET last == CHOOSE i \in 1..Len(MappedItems) :
                            /\ ValidProp(MappedItems[i]) /\ TargetOf(MappedItems[i]) = k
                            /\ \A j \in (i + 1)..Len(MappedItems) :
                                ~(ValidProp(MappedItems[j]) /\ TargetOf(MappedItems[j]) = k)
            IN  mapped.stateProps[k] = ResolvedValue(MappedItems[last])

\* An override registered for `count` was called although `count` is in state.
C3_Witness ==
    /\ mapped.pc = "mapped"
    /\ MappedHasState
    /\ MappedItems = <<Str("count")>>
    /\ "count" \in DOMAIN MappedState
    /\ "count" \in DOMAIN MappedDef.propOverrides
    /\ mapped.stateProps["count"] # MappedState["count"]

\* C4: an entry naming a prop that is neither in the namespace state nor an
\* override (an action that is not in the action table) raises no error, logs
\* one warning naming it, and is left out, while every valid entry of the same
\* list is still mapped.
C4_InvalidEntriesAreSkipped ==
    /\ mapped.pc \in {"connected", "mapped"} =>
        DOMAIN mapped.dispatchProps =
            {TargetOf(MappedActions[i]) :
                i \in {j \in 1..Len(MappedActions) : ValidAction(MappedActions[j])}}
    /\ mapped.pc = "connected" =>
        /\ Len(console) =
                Cardinality({i \in 1..Len(MappedActions) : ~ValidAction(MappedActions[i])})
        /\ \A w \in Range(console) : w.warning = "invalid action name"
    /\ (mapped.pc = "mapped" /\ MappedHasState) =>
        /\ ~mapped.error.threw
        /\ DOMAIN mapped.stateProps =
                {TargetOf(MappedItems[i]) :
                    i \in {j \in 1..Len(MappedItems) : ValidProp(MappedItems[j])}}
        /\ console = [i \in 1..Len(SelectSeq(MappedItems, LAMBDA e : ~ValidProp(e))) |->
                        Warning("invalid state key name",
                                SourceOf(SelectSeq(MappedItems, LAMBDA e : ~ValidProp(e))[i]))]

\* An invalid prop came first, was warned about once, and the valid prop after
\* it was mapped.
C4_Witness ==
    /\ mapped.pc = "mapped"
    /\ MappedHasState
    /\ Len(MappedItems) = 2
    /\ ~ValidProp(MappedItems[1])
    /\ ValidProp(MappedItems[2])
    /\ Len(console) = 1
    /\ DOMAIN mapped.stateProps = {TargetOf(MappedItems[2])}

\* C9 as stated: whenever propsToConnect is not an array, the state mapping gives
\* an empty object, no warning and no error.
C9_NonArrayAlwaysEmpty ==
    (mapped.pc = "mapped" /\ ~IsArray(DefaultProps(mapped.propsToConnect)))
    =>  /\ mapped.stateProps = EmptyObj
        /\ console = <<>>
        /\ ~mapped.error.threw

\* C9, amended: when propsToConnect is not an array and the namespace has a state
\* slice, the state mapping gives an empty object, no warning and no error.
C9_NonArrayWithStateEmpty ==
    (mapped.pc = "mapped" /\ ~IsArray(DefaultProps(mapped.propsToConnect)) /\ MappedHasState)
    =>  /\ mapped.stateProps = EmptyObj
        /\ console = <<>>
        /\ ~mapped.error.threw

\* A string was passed as propsToConnect for a namespace that has its slice.
C9_Witness ==
    /\ mapped.pc = "mapped"
    /\ mapped.propsToConnect.type = "string"
    /\ MappedHasState
    /\ mapped.stateProps = EmptyObj
    /\ ~mapped.error.threw

(***************************************************************************)
(* The calls issued on the combined connector, read from its record.       *)
(***************************************************************************)
IsConnectorCall(call) == call.op \in {"entry", "push"}

\* Whether a call handed the builder a state mapper, a dispatch object.
GivesStateMapper(call) ==
    IF IsConnectorCall(call) THEN Truthy(call.entry.propsToConnect)
    ELSE ~IsUndefined(call.args.customMapStateToProps)
GivesDispatch(call) ==
    IF IsConnectorCall(call) THEN Truthy(call.entry.actionsToConnect)
    ELSE ~IsUndefined(call.args.customMapDispatchToProps)

\* The state mapper and the dispatch object a call supplied.
StateMapperOf(call) ==
    IF IsConnectorCall(call)
    THEN CurriedCreateMapStateToProps(call.entry.connector, call.entry.propsToConnect,
                                      call.entry.config)
    ELSE CustomMapper(call.args.customMapStateToProps[1])
DispatchOf(call) ==
    IF IsConnectorCall(call)
    THEN CurriedCreateMapDispatchToProps(call.entry.connector,
                                         call.entry.actionsToConnect).props
    ELSE call.args.customMapDispatchToProps[1]

\* The state props a call's state mapper gives on a root state.
StateOutputOf(call, rootState, ownProps) ==
    CallStateMapper(StateMapperOf(call), rootState, ownProps)

\* The namespace of the connector a call uses.
NamespaceOf(call) == ConnectorDef(call.entry.connector).reduxNamespace

\* The calls that need a namespace's state slice that the root state lacks.
LacksState(calls, rootState) ==
    {i \in 1..Len(calls) :
        /\ IsConnectorCall(calls[i])
        /\ GivesStateMapper(calls[i])
        /\ NamespaceOf(calls[i]) \notin DOMAIN rootState}

\* C5: a connector whose namespace has no state slice in the root state raises
\* the fatal error naming that namespace and gives no props: when it is called
\* directly, and when it was handed with props to a combined connector.
C5_MissingNamespaceIsFatal ==
    /\ (bound.via = "connector" /\ NamespaceOf(bound.calls[1]) \notin DOMAIN bound.rootState)
        =>  /\ bound.error = NoNamespaceError(NamespaceOf(bound.calls[1]))
            /\ bound.stateProps = EmptyObj
    /\ (bound.via = "combined" /\ LacksState(bound.calls, bound.rootState) # {})
        =>  /\ bound.error.threw
            /\ bound.error.error = "UnableToFindStateNamespace"
            /\ \E i \in LacksState(bound.calls, bound.rootState) :
                    bound.error.namespace = NamespaceOf(bound.calls[i])
            /\ bound.stateProps = EmptyObj
    /\ bound.error.threw => bound.error.namespace \notin DOMAIN bound.rootState

\* A combined connector of two connectors was rendered on a root state that has
\* the first connector's namespace and lacks the second's.
C5_Witness ==
    /\ bound.via = "combined"
    /\ Len(bound.calls) = 2
    /\ LacksState(bound.calls, bound.rootState) = {2}
    /\ GivesStateMapper(bound.calls[1])
    /\ bound.error.threw

\* The last of the objects that has key k.
LastWith(objs, k) ==
    objs[CHOOSE i \in 1..Len(objs) :
            /\ k \in DOMAIN objs[i]
            /\ \A j \in (i + 1)..Len(objs) : k \notin DOMAIN objs[j]]

KeysOf(objs) == UNION {DOMAIN objs[i] : i \in 1..Len(objs)}

\* C6: the state mappers and the dispatch objects are accumulated in the order of
\* the calls, and an application's combined state props and dispatch props are
\* the outputs merged in that order: on a key collision the later call wins.
C6_AccumulatedInOrderLaterWins ==
    /\ combined.constructed =>
        LET withState == SelectSeq(combined.calls, GivesStateMapper)
            withDispatch == SelectSeq(combined.calls, GivesDispatch)
        IN  /\ combined.stateMappers =
                    [i \in 1..Len(withState) |-> StateMapperOf(withState[i])]
            /\ Tail(combined.mappedDispatches) =
                    [i \in 1..Len(withDispatch) |-> DispatchOf(withDispatch[i])]
    /\ bound.via = "combined" =>
        LET withState == SelectSeq(bound.calls, GivesStateMapper)
            withDispatch == SelectSeq(bound.calls, GivesDispatch)
            outputs == [i \in 1..Len(withState) |->
                            StateOutputOf(withState[i], bound.rootState, bound.ownProps).props]
            dispatches == [i \in 1..Len(withDispatch) |-> DispatchOf(withDispatch[i])]
        IN  /\ DOMAIN bound.dispatchProps = KeysOf(dispatches)
            /\ \A k \in DOMAIN bound.dispatchProps :
                    bound.dispatchProps[k] = LastWith(dispatches, k)[k]
            /\ ~bound.error.threw =>
                /\ DOMAIN bound.stateProps = KeysOf(outputs)
                /\ \A k \in DOMAIN bound.stateProps :
                        bound.stateProps[k] = LastWith(outputs, k)[k]

\* Two calls exposed the same state prop and the same action with different
\* values, and the application handed on those of the second call.
C6_Witness ==
    /\ bound.via = "combined"
    /\ ~bound.error.threw
    /\ Len(bound.calls) = 2
    /\ GivesStateMapper(bound.calls[1]) /\ GivesStateMapper(bound.calls[2])
    /\ GivesDispatch(bound.calls[1]) /\ GivesDispatch(bound.calls[2])
    /\ LET first == StateOutputOf(bound.calls[1], bound.rootState, bound.ownProps).props
           second == StateOutputOf(bound.calls[2], bound.rootState, bound.ownProps).props
       IN  /\ "count" \in (DOMAIN first) \cap (DOMAIN second)
           /\ first["count"] # second["count"]
           /\ bound.stateProps["count"] = second["count"]
    /\ "reset" \in (DOMAIN DispatchOf(bound.calls[1])) \cap (DOMAIN DispatchOf(bound.calls[2]))
    /\ DispatchOf(bound.calls[1])["reset"] # DispatchOf(bound.calls[2])["reset"]
    /\ bound.dispatchProps["reset"] = DispatchOf(bound.calls[2])["reset"]

\* combineConnectors().push(...e1)...: the builder the chained calls make of a
\* record of calls, every constructor entry issued as a push.
RECURSIVE Chained(_)
Chained(calls) ==
    IF calls = <<>> THEN NewBuilder
    ELSE LET n == Len(calls)
             before == Chained(SubSeq(calls, 1, n - 1))
         IN  IF IsConnectorCall(calls[n]) THEN PushFunc(before, calls[n].entry).builder
             ELSE ConnectFunc(before, calls[n].args)

\* C7: combineConnectors(e1, ..., en) and combineConnectors().push(...e1)...
\* .push(...en) are equivalent: both hold the same state mappers and dispatch
\* objects and hand the same combined state mapping and dispatch mapping to
\* connect; push and connect return the combined connector they were called on.
C7_ConstructorEqualsPushChain ==
    /\ combined.constructed =>
        LET chain == Chained(combined.calls)
        IN  /\ combined.stateMappers = chain.stateMappers
            /\ Tail(combined.mappedDispatches) = Tail(chain.mappedDispatches)
            /\ AssignAll(combined.mappedDispatches) = AssignAll(chain.mappedDispatches)
            /\ combined.mergeProps = chain.mergeProps
            /\ combined.options = chain.options
    /\ bound.via = "combined" =>
        LET chain == Chained(bound.calls)
            out == CombinedMapStateToPropsFuncs(chain.stateMappers, bound.rootState,
                                                bound.ownProps)
        IN  /\ bound.dispatchProps = AssignAll(chain.mappedDispatches)
            /\ bound.stateProps = out.props
            /\ bound.error = out.error
    /\ returned.call \in {"push", "connect"} => returned.value = "combinedConnectors"

\* A combined connector constructed from two entries was applied.
C7_Witness ==
    /\ bound.via = "combined"
    /\ Len(bound.calls) = 2
    /\ bound.calls[1].op = "entry" /\ bound.calls[2].op = "entry"
    /\ bound.calls[1].entry # bound.calls[2].entry
    /\ bound.stateProps # EmptyObj
    /\ bound.dispatchProps # EmptyObj

\* The arguments of the most recent connect call, if any.
LastConnectArgs(calls) ==
    IF \E i \in 1..Len(calls) : calls[i].op = "connect"
    THEN calls[CHOOSE i \in 1..Len(calls) :
                    /\ calls[i].op = "connect"
                    /\ \A j \in (i + 1)..Len(calls) : calls[j].op # "connect"].args
    ELSE NoArgs

\* C10: the mergeProps and options handed to connect on application are those
\* of the most recent connect call, also when that call left them out, while
\* the state mappers and dispatch objects of every connect call stay accumulated.
C10_LastConnectSetsMergeProps ==
    /\ combined.constructed =>
        LET connects == SelectSeq(combined.calls, LAMBDA c : c.op = "connect")
            withState == SelectSeq(connects, GivesStateMapper)
            withDispatch == SelectSeq(connects, GivesDispatch)
        IN  /\ combined.mergeProps = LastConnectArgs(combined.calls).customMergeProps
            /\ combined.options = LastConnectArgs(combined.calls).customOptions
            /\ SelectSeq(combined.stateMappers, LAMBDA m : m.kind = "custom") =
                    [i \in 1..Len(withState) |-> StateMapperOf(withState[i])]
            /\ \A i \in 1..Len(withDispatch) :
                    DispatchOf(withDispatch[i]) \in Range(Tail(combined.mappedDispatches))
            /\ Len(combined.mappedDispatches) >= 1 + Len(withDispatch)
    /\ bound.via = "combined" =>
        /\ bound.mergeProps = LastConnectArgs(bound.calls).customMergeProps
        /\ bound.options = LastConnectArgs(bound.calls).customOptions

\* A second connect call left mergeProps and options out after a first call had
\* given them: the application handed on none, with both calls' dispatch objects.
C10_Witness ==
    /\ bound.via = "combined"
    /\ Len(bound.calls) = 2
    /\ bound.calls[1].op = "connect" /\ bound.calls[2].op = "connect"
    /\ ~IsUndefined(bound.calls[1].args.customMergeProps)
    /\ ~IsUndefined(bound.calls[1].args.customOptions)
    /\ IsUndefined(bound.calls[2].args.customMergeProps)
    /\ IsUndefined(bound.mergeProps) /\ IsUndefined(bound.options)
    /\ DOMAIN bound.dispatchProps = {"reset", "inc"}
    /\ "count" \in DOMAIN bound.stateProps

\* The dispatch mapping a fresh builder given the first n of the calls hands on.
FreshDispatch(calls, n) == AssignAll(Chained(SubSeq(calls, 1, n)).mappedDispatches)

\* C11: an application is repeatable and leaves the builder as it was: the state
\* and dispatch mappings it hands on are those of a fresh builder given the same
\* calls in the same order, whatever earlier applications left in the merge
\* target, and after it the builder still holds the mappers, dispatch objects,
\* mergeProps and options of its calls, its merge target holding only the merge
\* of an earlier prefix of those calls.
C11_ApplicationIsRepeatable ==
    /\ bound.via = "combined" =>
        LET fresh == Chained(bound.calls)
            out == CombinedMapStateToPropsFuncs(fresh.stateMappers, bound.rootState,
                                                bound.ownProps)
        IN  /\ bound.dispatchProps = FreshDispatch(bound.calls, Len(bound.calls))
            /\ bound.stateProps = out.props
            /\ bound.error = out.error
            /\ \E n \in 0..Len(bound.calls) : bound.target = FreshDispatch(bound.calls, n)
    /\ combined.constructed =>
        LET fresh == Chained(combined.calls)
        IN  /\ combined.stateMappers = fresh.stateMappers
            /\ Tail(combined.mappedDispatches) = Tail(fresh.mappedDispatches)
            /\ combined.mergeProps = fresh.mergeProps
            /\ combined.options = fresh.options
            /\ \E n \in 0..Len(combined.calls) :
                    combined.mappedDispatches[1] = FreshDispatch(combined.calls, n)
            /\ \A root \in BindStates, own \in BindOwnProps :
                    CombinedMapStateToPropsFuncs(combined.stateMappers, root, own)
                        = CombinedMapStateToPropsFuncs(fresh.stateMappers, root, own)

\* An application found the merge of an earlier application in the merge target,
\* a call issued in between having changed an action both expose, and handed on
\* the state props of both calls.
C11_Witness ==
    /\ bound.via = "combined"
    /\ Len(bound.calls) = 2
    /\ bound.target # EmptyObj
    /\ bound.target = FreshDispatch(bound.calls, 1)
    /\ \E k \in DOMAIN bound.target : bound.target[k] # bound.dispatchProps[k]
    /\ GivesStateMapper(bound.calls[1]) /\ GivesStateMapper(bound.calls[2])
    /\ ~bound.error.threw
    /\ bound.stateProps # EmptyObj

====
